---- MODULE Spec2Model ----
(***************************************************************************)
(* The trajectory analysis engine of wingfoil_api_deno: the KIAnalysis     *)
(* class and the basic analyzer (AnalysisBase / getAnalysisData).          *)
(*                                                                         *)
(* Representation of the program's numbers:                                *)
(*  - a point's `time` is the instant its string parses to, in             *)
(*    milliseconds (what new Date(time).getTime() returns), or NaN when    *)
(*    the string does not parse. Instants are multiples of 2000 ms, so     *)
(*    the code's divisions by 1000 and by 2 are exact in the integers;     *)
(*  - a point's `speed` is in m/s, an integer, and the field is absent     *)
(*    from the record when the point carries no speed;                     *)
(*  - latitudes and longitudes are whole degrees on the equator (lat = 0), *)
(*    where the code's bearing formula gives exactly 0, 90 or 270;         *)
(*  - array indexes are the code's 0-based indexes.                        *)
(***************************************************************************)
EXTENDS Integers, Sequences, FiniteSets, TLC

VARIABLES
    kind,         \* which analyzer object this is: "KI" (KIAnalysis) or "Base" (AnalysisBase)
    config,       \* the analyzer's private config field
    pc,           \* "idle" | "scan" (inside the maneuver loop) | "done" | "thrown"
    input,        \* the argument of the running getStatistics call
    i,            \* the maneuver loop's index variable
    jibes,        \* the maneuver loop's jibe counter
    tacks,        \* the maneuver loop's tack counter
    flyingJibes,  \* the maneuver loop's flying-jibe counter
    maneuvers,    \* history: the maneuvers counted so far, in order
    result        \* what the call returned

vars == <<kind, config, pc, input, i, jibes, tacks, flyingJibes, maneuvers, result>>

(***************************************************************************)
(* JavaScript numbers: NaN and the operations that meet it.                *)
(***************************************************************************)
NaN == 0 - 1000000

Sub(a, b) == IF a = NaN \/ b = NaN THEN NaN ELSE a - b

Add(a, b) == IF a = NaN \/ b = NaN THEN NaN ELSE a + b

Mul(a, b) == IF a = NaN \/ b = NaN THEN NaN ELSE a * b

Gt(a, b) == a # NaN /\ b # NaN /\ a > b

Ge(a, b) == a # NaN /\ b # NaN /\ a >= b

Le(a, b) == a # NaN /\ b # NaN /\ a <= b

Abs(x) == IF x = NaN THEN NaN ELSE IF x < 0 THEN 0 - x ELSE x

\* x / 1000 for a number of milliseconds (exact: instants are multiples of 2000)
Div1000(x) == IF x = NaN THEN NaN ELSE x \div 1000

\* x / 2 for a number of milliseconds (exact: instants are multiples of 2000)
Half(x) == IF x = NaN THEN NaN ELSE x \div 2

Max(a, b) == IF a >= b THEN a ELSE b

\* arr[idx] for a 0-based index; an index outside the array reads undefined,
\* which the arithmetic that follows turns into NaN
At(arr, idx) == IF idx >= 0 /\ idx < Len(arr) THEN arr[idx + 1] ELSE NaN

(***************************************************************************)
(* Track points and the call's argument.                                   *)
(***************************************************************************)
HasSpeed(p) == "speed" \in DOMAIN p

\* (p.speed || 0)
SpeedOr0(p) == IF HasSpeed(p) THEN p.speed ELSE 0

\* new Date(p.time).getTime()
getTime(p) == p.time

\* the argument `points`: an array, or nothing at all (undefined / null)
Missing == [present |-> FALSE, points |-> <<>>]

Given(pts) == [present |-> TRUE, points |-> pts]

\* speed > kmh / 3.6, and equally speed * 3.6 > kmh
AboveKmh(speed, kmh) == speed * 36 > kmh * 10

(***************************************************************************)
(* Configuration.                                                          *)
(***************************************************************************)
DefaultFlyingSpeedThresholdKmh == 8
DefaultFlyingJibeSpeedThresholdKmh == 8
DefaultJibeAngleThreshold == 140
DefaultTackAngleThreshold == 80
DefaultManeuverTimeWindowSeconds == 15
DefaultMinFlyingSegmentSeconds == 5
DefaultMinMaxSpeedDurationSeconds == 3

DefaultConfig ==
    [ flyingSpeedThresholdKmh     |-> DefaultFlyingSpeedThresholdKmh,
      flyingJibeSpeedThresholdKmh |-> DefaultFlyingJibeSpeedThresholdKmh,
      jibeAngleThreshold          |-> DefaultJibeAngleThreshold,
      tackAngleThreshold          |-> DefaultTackAngleThreshold,
      maneuverTimeWindowSeconds   |-> DefaultManeuverTimeWindowSeconds,
      minFlyingSegmentSeconds     |-> DefaultMinFlyingSegmentSeconds,
      minMaxSpeedDurationSeconds  |-> DefaultMinMaxSpeedDurationSeconds ]

\* { ...a, ...b }: b's fields over a's
Spread(a, b) ==
    [f \in (DOMAIN a) \cup (DOMAIN b) |-> IF f \in DOMAIN b THEN b[f] ELSE a[f]]

\* new KIAnalysis(partial)
KIConstructor(partial) == Spread(DefaultConfig, partial)

\* new AnalysisBase(cfg): the object keeps the config it is given, as it is
BaseConstructor(cfg) == cfg

\* the body of KIAnalysis.updateConfig
updateConfig(cfg, newConfig) == Spread(cfg, newConfig)

(***************************************************************************)
(* Geodesy.                                                                *)
(***************************************************************************)
\* On the equator (lat1 = lat2 = 0): y = sin(lon2 - lon1), x = 0, so that
\* atan2(y, x) is +90 going east, -90 going west and 0 for a repeated point;
\* (deg + 360) % 360 then gives 90, 270 and 0.
calculateBearing(pt1, pt2) ==
    IF pt2.lon > pt1.lon THEN 90
    ELSE IF pt2.lon < pt1.lon THEN 270
    ELSE 0

angleDifference(angle1, angle2) ==
    LET diff == Abs(Sub(angle1, angle2))
    IN  IF Gt(diff, 180) THEN 360 - diff ELSE diff

\* one bearing per consecutive pair, the last one repeated (when there is one)
calculateBearings(points) ==
    LET n == Len(points)
    IN  IF n < 2 THEN <<>>
        ELSE [k \in 1..n |->
                IF k < n THEN calculateBearing(points[k], points[k + 1])
                ELSE calculateBearing(points[n - 1], points[n])]

(***************************************************************************)
(* KIAnalysis: maneuver detection.                                         *)
(***************************************************************************)
\* The look-ahead loop of detectManeuverAtPoint, from index j on, with the
\* loop's two variables; the result is their value when the loop ends.
RECURSIVE lookAhead(_, _, _, _, _, _, _)
lookAhead(points, bearings, startIndex, window, j, maxAngleChange, maneuverEndIndex) ==
    IF j >= Len(points)
    THEN [maxAngleChange |-> maxAngleChange, maneuverEndIndex |-> maneuverEndIndex]
    ELSE
      LET timeDiff == Div1000(Sub(getTime(points[j + 1]), getTime(points[startIndex + 1])))
          angleChange == angleDifference(At(bearings, startIndex - 1), At(bearings, j - 1))
      IN  IF Gt(timeDiff, window)
          THEN [maxAngleChange |-> maxAngleChange, maneuverEndIndex |-> maneuverEndIndex]
          ELSE IF Gt(angleChange, maxAngleChange)
               THEN lookAhead(points, bearings, startIndex, window, j + 1, angleChange, j)
               ELSE lookAhead(points, bearings, startIndex, window, j + 1,
                              maxAngleChange, maneuverEndIndex)

\* a flying test that leaves the start point out
isManeuverFlyingAfterStart(points, startIndex, endIndex, cfg) ==
    \A k \in (startIndex + 1)..endIndex :
        AboveKmh(SpeedOr0(points[k + 1]), cfg.flyingJibeSpeedThresholdKmh)

isManeuverFlying(points, startIndex, endIndex, cfg) ==
    \A k \in startIndex..endIndex :
        AboveKmh(SpeedOr0(points[k + 1]), cfg.flyingJibeSpeedThresholdKmh)

\* a classification that tests the tack threshold first
detectManeuverAtPointTackFirst(points, bearings, startIndex, cfg) ==
    LET w == lookAhead(points, bearings, startIndex, cfg.maneuverTimeWindowSeconds,
                       startIndex + 1, 0, 0 - 1)
    IN  IF w.maxAngleChange >= cfg.tackAngleThreshold
        THEN [type |-> "tack", endIndex |-> w.maneuverEndIndex, isFlying |-> FALSE]
        ELSE IF w.maxAngleChange >= cfg.jibeAngleThreshold
        THEN [type |-> "jibe", endIndex |-> w.maneuverEndIndex,
              isFlying |-> isManeuverFlying(points, startIndex, w.maneuverEndIndex, cfg)]
        ELSE [type |-> "null", endIndex |-> 0 - 1, isFlying |-> FALSE]

\* a detection that reports the start index as the maneuver's end index
detectManeuverAtPointEndingAtStart(points, bearings, startIndex, cfg) ==
    LET w == lookAhead(points, bearings, startIndex, cfg.maneuverTimeWindowSeconds,
                       startIndex + 1, 0, 0 - 1)
    IN  IF w.maxAngleChange >= cfg.jibeAngleThreshold
        THEN [type |-> "jibe", endIndex |-> startIndex,
              isFlying |-> isManeuverFlying(points, startIndex, startIndex, cfg)]
        ELSE IF w.maxAngleChange >= cfg.tackAngleThreshold
        THEN [type |-> "tack", endIndex |-> startIndex, isFlying |-> FALSE]
        ELSE [type |-> "null", endIndex |-> 0 - 1, isFlying |-> FALSE]

detectManeuverAtPoint(points, bearings, startIndex, cfg) ==
    LET w == lookAhead(points, bearings, startIndex, cfg.maneuverTimeWindowSeconds,
                       startIndex + 1, 0, 0 - 1)
    IN  IF w.maxAngleChange >= cfg.jibeAngleThreshold
        THEN [type |-> "jibe", endIndex |-> w.maneuverEndIndex,
              isFlying |-> isManeuverFlying(points, startIndex, w.maneuverEndIndex, cfg)]
        ELSE IF w.maxAngleChange >= cfg.tackAngleThreshold
        THEN [type |-> "tack", endIndex |-> w.maneuverEndIndex, isFlying |-> FALSE]
        ELSE [type |-> "null", endIndex |-> 0 - 1, isFlying |-> FALSE]

\* an iteration that counts a flying jibe in place of a jibe, not on top of it
detectManeuversStepEitherOr(points, cfg, idx, counts) ==
    LET m == detectManeuverAtPoint(points, calculateBearings(points), idx, cfg)
    IN  IF m.type = "jibe"
        THEN [i |-> m.endIndex + 1,
              jibes |-> IF m.isFlying THEN counts.jibes ELSE counts.jibes + 1,
              tacks |-> counts.tacks,
              flyingJibes |-> IF m.isFlying THEN counts.flyingJibes + 1
                              ELSE counts.flyingJibes,
              maneuver |-> m]
        ELSE IF m.type = "tack"
        THEN [i |-> m.endIndex + 1,
              jibes |-> counts.jibes,
              tacks |-> counts.tacks + 1,
              flyingJibes |-> counts.flyingJibes,
              maneuver |-> m]
        ELSE [i |-> idx + 1,
              jibes |-> counts.jibes,
              tacks |-> counts.tacks,
              flyingJibes |-> counts.flyingJibes,
              maneuver |-> m]

\* One iteration of the for loop of detectManeuvers, its i++ included: the
\* loop's variables after the iteration, and the maneuver it counted.
detectManeuversStep(points, cfg, idx, counts) ==
    LET m == detectManeuverAtPoint(points, calculateBearings(points), idx, cfg)
    IN  IF m.type = "jibe"
        THEN [i |-> m.endIndex + 1,
              jibes |-> counts.jibes + 1,
              tacks |-> counts.tacks,
              flyingJibes |-> IF m.isFlying THEN counts.flyingJibes + 1
                              ELSE counts.flyingJibes,
              maneuver |-> m]
        ELSE IF m.type = "tack"
        THEN [i |-> m.endIndex + 1,
              jibes |-> counts.jibes,
              tacks |-> counts.tacks + 1,
              flyingJibes |-> counts.flyingJibes,
              maneuver |-> m]
        ELSE [i |-> idx + 1,
              jibes |-> counts.jibes,
              tacks |-> counts.tacks,
              flyingJibes |-> counts.flyingJibes,
              maneuver |-> m]

\* The for loop of detectManeuvers from index idx on: the counters when the
\* loop ends (the recursion has no end where the loop has none).
RECURSIVE detectManeuversFrom(_, _, _, _)
detectManeuversFrom(points, cfg, idx, counts) ==
    IF idx >= Len(points) - 1 THEN counts
    ELSE LET s == detectManeuversStep(points, cfg, idx, counts)
         IN  detectManeuversFrom(points, cfg, s.i,
                 [jibes |-> s.jibes, tacks |-> s.tacks, flyingJibes |-> s.flyingJibes])

detectManeuvers(points, cfg) ==
    detectManeuversFrom(points, cfg, 1, [jibes |-> 0, tacks |-> 0, flyingJibes |-> 0])

(***************************************************************************)
(* KIAnalysis: metrics.                                                    *)
(***************************************************************************)
OutlierSpeedCapMs == 50

\* Haversine distance of two points of the equator, in units of one degree of
\* the equator (R * pi / 180 metres): a = sin^2(dLon / 2), c = |dLon|
calculateDistance(pt1, pt2) == Abs(pt2.lon - pt1.lon)

RECURSIVE totalDistanceFrom(_, _, _)
totalDistanceFrom(points, idx, totalDistance) ==
    IF idx >= Len(points) THEN totalDistance
    ELSE totalDistanceFrom(points, idx + 1,
            totalDistance + calculateDistance(points[idx], points[idx + 1]))

calculateTotalDistance(points) == totalDistanceFrom(points, 1, 0)

calculateTotalTime(points) ==
    Div1000(Sub(getTime(points[Len(points)]), getTime(points[1])))

filterSpeedOutliers(points) ==
    SelectSeq(points, LAMBDA p : SpeedOr0(p) <= OutlierSpeedCapMs)

\* the loop of calculateSustainedSpeedDuration from index idx on: the last
\* endTime it assigns
RECURSIVE sustainedEndTime(_, _, _, _)
sustainedEndTime(points, idx, targetSpeed, endTime) ==
    IF idx >= Len(points) THEN endTime
    ELSE IF SpeedOr0(points[idx + 1]) >= targetSpeed
         THEN sustainedEndTime(points, idx + 1, targetSpeed, getTime(points[idx + 1]))
         ELSE endTime

calculateSustainedSpeedDuration(points, startIndex, targetSpeed) ==
    IF startIndex >= Len(points) - 1 THEN 0
    ELSE LET startTime == getTime(points[startIndex + 1])
         IN  Div1000(Sub(sustainedEndTime(points, startIndex, targetSpeed, startTime),
                         startTime))

RECURSIVE maxSustainedFrom(_, _, _, _)
maxSustainedFrom(points, idx, minDuration, maxSustainedSpeed) ==
    IF idx >= Len(points) THEN maxSustainedSpeed
    ELSE
      LET currentSpeed == SpeedOr0(points[idx + 1])
      IN  IF currentSpeed * 10 <= 1
          THEN maxSustainedFrom(points, idx + 1, minDuration, maxSustainedSpeed)
          ELSE IF /\ Ge(calculateSustainedSpeedDuration(points, idx, currentSpeed),
                        minDuration)
                  /\ currentSpeed > maxSustainedSpeed
               THEN maxSustainedFrom(points, idx + 1, minDuration, currentSpeed)
               ELSE maxSustainedFrom(points, idx + 1, minDuration, maxSustainedSpeed)

\* a scan that keeps the lowest sustained speed in place of the highest
RECURSIVE maxSustainedFromLowest(_, _, _, _)
maxSustainedFromLowest(points, idx, minDuration, maxSustainedSpeed) ==
    IF idx >= Len(points) THEN maxSustainedSpeed
    ELSE
      LET currentSpeed == SpeedOr0(points[idx + 1])
      IN  IF currentSpeed * 10 <= 1
          THEN maxSustainedFromLowest(points, idx + 1, minDuration, maxSustainedSpeed)
          ELSE IF /\ Ge(calculateSustainedSpeedDuration(points, idx, currentSpeed),
                        minDuration)
                  /\ (maxSustainedSpeed = 0 \/ currentSpeed < maxSustainedSpeed)
               THEN maxSustainedFromLowest(points, idx + 1, minDuration, currentSpeed)
               ELSE maxSustainedFromLowest(points, idx + 1, minDuration, maxSustainedSpeed)

getMaxSustainedSpeedLowest(points, cfg) ==
    IF Len(points) < 2 THEN 0
    ELSE maxSustainedFromLowest(points, 0, cfg.minMaxSpeedDurationSeconds, 0)

getMaxSustainedSpeed(points, cfg) ==
    IF Len(points) < 2 THEN 0
    ELSE maxSustainedFrom(points, 0, cfg.minMaxSpeedDurationSeconds, 0)

getMaxSpeed(points, cfg) == getMaxSustainedSpeed(filterSpeedOutliers(points), cfg)

\* a loop that counts half the segment time also when both speeds are above
RECURSIVE flyingTimeFromHalfOnly(_, _, _, _)
flyingTimeFromHalfOnly(points, cfg, idx, flyingTime) ==
    IF idx >= Len(points) THEN flyingTime
    ELSE
      LET prevAbove == AboveKmh(SpeedOr0(points[idx]), cfg.flyingSpeedThresholdKmh)
          currentAbove == AboveKmh(SpeedOr0(points[idx + 1]), cfg.flyingSpeedThresholdKmh)
          segmentTime == Sub(getTime(points[idx + 1]), getTime(points[idx]))
      IN  IF prevAbove \/ currentAbove
          THEN flyingTimeFromHalfOnly(points, cfg, idx + 1,
                                      Add(flyingTime, Half(segmentTime)))
          ELSE flyingTimeFromHalfOnly(points, cfg, idx + 1, flyingTime)

\* the loop of calculateFlyingTime from index idx on (milliseconds)
RECURSIVE flyingTimeFrom(_, _, _, _)
flyingTimeFrom(points, cfg, idx, flyingTime) ==
    IF idx >= Len(points) THEN flyingTime
    ELSE
      LET prevSpeed == SpeedOr0(points[idx])
          currentSpeed == SpeedOr0(points[idx + 1])
          prevAbove == AboveKmh(prevSpeed, cfg.flyingSpeedThresholdKmh)
          currentAbove == AboveKmh(currentSpeed, cfg.flyingSpeedThresholdKmh)
          segmentTime == Sub(getTime(points[idx + 1]), getTime(points[idx]))
          timeToAdd == IF prevAbove /\ currentAbove THEN segmentTime
                       ELSE Half(segmentTime)
      IN  IF prevAbove \/ currentAbove
          THEN flyingTimeFrom(points, cfg, idx + 1, Add(flyingTime, timeToAdd))
          ELSE flyingTimeFrom(points, cfg, idx + 1, flyingTime)

\* a loop that starts one pair late
calculateFlyingTimeFromSecond(points, cfg) == flyingTimeFrom(points, cfg, 2, 0)

calculateFlyingTime(points, cfg) == flyingTimeFrom(points, cfg, 1, 0)

RECURSIVE maxDistanceFrom(_, _, _)
maxDistanceFrom(points, idx, maxDistance) ==
    IF idx >= Len(points) THEN maxDistance
    ELSE maxDistanceFrom(points, idx + 1,
            Max(maxDistance, calculateDistance(points[1], points[idx + 1])))

calculateMaxDistanceFromStart(points) == maxDistanceFrom(points, 1, 0)

\* a closing that counts a sequence of any length
closeSequenceAnyLength(points, cfg, first, last, longestSequence) ==
    LET sequenceTime == Div1000(Sub(getTime(points[last + 1]), getTime(points[first + 1])))
    IN  IF Ge(sequenceTime, longestSequence) THEN sequenceTime ELSE longestSequence

\* sequenceTime >= minFlyingSegmentSeconds ? Math.max(longest, sequenceTime) : longest
closeSequence(points, cfg, first, last, longestSequence) ==
    LET sequenceTime == Div1000(Sub(getTime(points[last + 1]), getTime(points[first + 1])))
    IN  IF Ge(sequenceTime, cfg.minFlyingSegmentSeconds)
        THEN Max(longestSequence, sequenceTime)
        ELSE longestSequence

\* the loop of calculateLongestFlyingSequence from index idx on
RECURSIVE longestFrom(_, _, _, _, _)
longestFrom(points, cfg, idx, longestSequence, currentSequenceStart) ==
    IF idx >= Len(points) THEN longestSequence
    ELSE IF AboveKmh(SpeedOr0(points[idx + 1]), cfg.flyingSpeedThresholdKmh)
    THEN LET start == IF currentSequenceStart = 0 - 1 THEN idx ELSE currentSequenceStart
         IN  IF idx = Len(points) - 1
             THEN longestFrom(points, cfg, idx + 1,
                              closeSequence(points, cfg, start, idx, longestSequence), start)
             ELSE longestFrom(points, cfg, idx + 1, longestSequence, start)
    ELSE IF currentSequenceStart # 0 - 1
    THEN longestFrom(points, cfg, idx + 1,
                     closeSequence(points, cfg, currentSequenceStart, idx - 1,
                                   longestSequence),
                     0 - 1)
    ELSE longestFrom(points, cfg, idx + 1, longestSequence, currentSequenceStart)

calculateLongestFlyingSequence(points, cfg) == longestFrom(points, cfg, 0, 0, 0 - 1)

\* the two sums of calculateAverageSpeed from index idx on
RECURSIVE averageSums(_, _, _, _)
averageSums(filteredPoints, idx, totalWeighted, totalTime) ==
    IF idx >= Len(filteredPoints) - 1
    THEN [totalWeighted |-> totalWeighted, totalTime |-> totalTime]
    ELSE
      LET p1 == filteredPoints[idx + 1]
          p2 == filteredPoints[idx + 2]
          dt == Div1000(Sub(getTime(p2), getTime(p1)))
      IN  IF ~HasSpeed(p1) \/ ~HasSpeed(p2)
          THEN averageSums(filteredPoints, idx + 1, totalWeighted, totalTime)
          ELSE IF Le(dt, 0)
          THEN averageSums(filteredPoints, idx + 1, totalWeighted, totalTime)
          ELSE averageSums(filteredPoints, idx + 1,
                           Add(totalWeighted, Mul(p1.speed + p2.speed, Half(dt))),
                           Add(totalTime, dt))

\* totalWeighted / totalTime as the fraction num / den, 0 as 0 / 1
calculateAverageSpeed(points) ==
    IF Len(points) < 2 THEN [num |-> 0, den |-> 1]
    ELSE LET s == averageSums(filterSpeedOutliers(points), 0, 0, 0)
         IN  IF Gt(s.totalTime, 0)
             THEN [num |-> s.totalWeighted, den |-> s.totalTime]
             ELSE [num |-> 0, den |-> 1]

\* a record whose flying time is left in milliseconds
KIStatisticsMilliseconds(points, cfg, counts) ==
    [ totalDistance             |-> calculateTotalDistance(points),
      totalTime                 |-> calculateTotalTime(points),
      startTime                 |-> points[1].time,
      endTime                   |-> points[Len(points)].time,
      avgSpeed                  |-> calculateAverageSpeed(points),
      maxSpeed                  |-> getMaxSpeed(points, cfg),
      timeAbove10kmh            |-> calculateFlyingTime(points, cfg),
      maxDistanceFromStart      |-> calculateMaxDistanceFromStart(points),
      longestSequenceAbove10kmh |-> calculateLongestFlyingSequence(points, cfg),
      jibeCount                 |-> counts.jibes,
      tackCount                 |-> counts.tacks,
      flyingJibeCount           |-> counts.flyingJibes ]

\* the record getKIAnalysisData returns, given the counts of detectManeuvers
KIStatistics(points, cfg, counts) ==
    [ totalDistance             |-> calculateTotalDistance(points),
      totalTime                 |-> calculateTotalTime(points),
      startTime                 |-> points[1].time,
      endTime                   |-> points[Len(points)].time,
      avgSpeed                  |-> calculateAverageSpeed(points),
      maxSpeed                  |-> getMaxSpeed(points, cfg),
      timeAbove10kmh            |-> Div1000(calculateFlyingTime(points, cfg)),
      maxDistanceFromStart      |-> calculateMaxDistanceFromStart(points),
      longestSequenceAbove10kmh |-> calculateLongestFlyingSequence(points, cfg),
      jibeCount                 |-> counts.jibes,
      tackCount                 |-> counts.tacks,
      flyingJibeCount           |-> counts.flyingJibes ]

(***************************************************************************)
(* The basic analyzer: getAnalysisData and its helpers.                    *)
(***************************************************************************)
MIN_JIBE_ANGLE == 140
MIN_TACK_ANGLE == 80
FLY_JIBE_THRESHOLD == 10
MAX_MANEUVER_TIME == 10
DEFAULT_JUMP_MPS == 2
CurrentSpeedFlyingKmh == 8
SegmentSpeedCap == 100

\* The loop of filterBySpeedJump from the idx-th point on (prevT = -Infinity
\* and lastKeptSpeed = null while nothing is kept).
RECURSIVE speedJumpFrom(_, _, _, _)
speedJumpFrom(points, jumpMps, idx, kept) ==
    IF idx > Len(points) THEN kept
    ELSE
      LET p == points[idx]
          t == getTime(p)
          last == kept[Len(kept)]
      IN  IF ~HasSpeed(p)
          THEN speedJumpFrom(points, jumpMps, idx + 1, kept)
          ELSE IF t = NaN \/ (kept # <<>> /\ ~(t > last.t))
          THEN speedJumpFrom(points, jumpMps, idx + 1, kept)
          ELSE IF kept = <<>> \/ Abs(p.speed - last.s) <= jumpMps
          THEN speedJumpFrom(points, jumpMps, idx + 1,
                             Append(kept, [t |-> t, s |-> p.speed]))
          ELSE speedJumpFrom(points, jumpMps, idx + 1, kept)

filterBySpeedJump(points, jumpMps) == speedJumpFrom(points, jumpMps, 1, <<>>)

RECURSIVE maxOfKept(_, _, _)
maxOfKept(pts, idx, max) ==
    IF idx > Len(pts) THEN max
    ELSE maxOfKept(pts, idx + 1, IF pts[idx].s > max THEN pts[idx].s ELSE max)

baseGetMaxSpeed(points) == maxOfKept(filterBySpeedJump(points, DEFAULT_JUMP_MPS), 1, 0)

\* the two sums of averageSpeedWeighted from index idx on; the segment speed
\* (p1.speed + p2.speed) / 2 is over 100 when the sum is over 200
RECURSIVE weightedSums(_, _, _, _)
weightedSums(points, idx, totalWeighted, totalTime) ==
    IF idx >= Len(points) - 1
    THEN [totalWeighted |-> totalWeighted, totalTime |-> totalTime]
    ELSE
      LET p1 == points[idx + 1]
          p2 == points[idx + 2]
          dt == Div1000(Sub(getTime(p2), getTime(p1)))
      IN  IF ~HasSpeed(p1) \/ ~HasSpeed(p2)
          THEN weightedSums(points, idx + 1, totalWeighted, totalTime)
          ELSE IF Le(dt, 0)
          THEN weightedSums(points, idx + 1, totalWeighted, totalTime)
          ELSE IF p1.speed + p2.speed > 2 * SegmentSpeedCap
          THEN weightedSums(points, idx + 1, totalWeighted, totalTime)
          ELSE weightedSums(points, idx + 1,
                            Add(totalWeighted, Mul(p1.speed + p2.speed, Half(dt))),
                            Add(totalTime, dt))

averageSpeedWeighted(points) ==
    IF Len(points) < 2 THEN [num |-> 0, den |-> 1]
    ELSE LET s == weightedSums(points, 0, 0, 0)
         IN  IF Gt(s.totalTime, 0)
             THEN [num |-> s.totalWeighted, den |-> s.totalTime]
             ELSE [num |-> 0, den |-> 1]

\* the "time above 10 km/h" loop of getAnalysisData from index idx on (ms)
RECURSIVE baseTimeAboveFrom(_, _, _, _)
baseTimeAboveFrom(points, cfg, idx, timeAbove10kmh) ==
    IF idx >= Len(points) THEN timeAbove10kmh
    ELSE
      LET prevSpeed == SpeedOr0(points[idx])
          currentSpeed == SpeedOr0(points[idx + 1])
          segmentTime == Sub(getTime(points[idx + 1]), getTime(points[idx]))
          timeToAdd ==
              IF /\ AboveKmh(prevSpeed, cfg.flyingSpeedThresholdKmh)
                 /\ AboveKmh(currentSpeed, cfg.flyingJibeSpeedThresholdKmh)
              THEN segmentTime
              ELSE Half(segmentTime)
      IN  IF \/ AboveKmh(prevSpeed, cfg.flyingJibeSpeedThresholdKmh)
             \/ AboveKmh(currentSpeed, CurrentSpeedFlyingKmh)
          THEN baseTimeAboveFrom(points, cfg, idx + 1, Add(timeAbove10kmh, timeToAdd))
          ELSE baseTimeAboveFrom(points, cfg, idx + 1, timeAbove10kmh)

\* currentSequenceTime > longestSequenceTime ? currentSequenceTime : longestSequenceTime
baseCloseSequence(points, first, last, longestSequenceTime) ==
    LET currentSequenceTime ==
            Div1000(Sub(getTime(points[last + 1]), getTime(points[first + 1])))
    IN  IF Gt(currentSequenceTime, longestSequenceTime)
        THEN currentSequenceTime
        ELSE longestSequenceTime

\* the "longest sequence" loop of getAnalysisData from index idx on
RECURSIVE baseLongestFrom(_, _, _, _, _)
baseLongestFrom(points, cfg, idx, longestSequenceTime, sequenceStartIndex) ==
    IF idx >= Len(points) THEN longestSequenceTime
    ELSE IF AboveKmh(SpeedOr0(points[idx + 1]), cfg.flyingSpeedThresholdKmh)
    THEN LET start == IF sequenceStartIndex = 0 - 1 THEN idx ELSE sequenceStartIndex
         IN  IF idx = Len(points) - 1
             THEN baseLongestFrom(points, cfg, idx + 1,
                     baseCloseSequence(points, start, idx, longestSequenceTime), start)
             ELSE baseLongestFrom(points, cfg, idx + 1, longestSequenceTime, start)
    ELSE IF sequenceStartIndex # 0 - 1
    THEN baseLongestFrom(points, cfg, idx + 1,
             baseCloseSequence(points, sequenceStartIndex, idx - 1, longestSequenceTime),
             0 - 1)
    ELSE baseLongestFrom(points, cfg, idx + 1, longestSequenceTime, sequenceStartIndex)

\* One iteration of the maneuver loop of getAnalysisData, its i++ included.
baseManeuverStep(points, cfg, idx, counts) ==
    LET w == lookAhead(points, calculateBearings(points), idx, MAX_MANEUVER_TIME,
                       idx + 1, 0, 0 - 1)
        isFlying == \A k \in idx..w.maneuverEndIndex :
                        AboveKmh(SpeedOr0(points[k + 1]), FLY_JIBE_THRESHOLD)
    IN  IF w.maxAngleChange >= MIN_JIBE_ANGLE
        THEN [i |-> w.maneuverEndIndex + 1,
              jibes |-> counts.jibes + 1,
              tacks |-> counts.tacks,
              flyingJibes |-> IF isFlying THEN counts.flyingJibes + 1
                              ELSE counts.flyingJibes,
              maneuver |-> [type |-> "jibe", endIndex |-> w.maneuverEndIndex,
                            isFlying |-> isFlying]]
        ELSE IF w.maxAngleChange >= MIN_TACK_ANGLE
        THEN [i |-> w.maneuverEndIndex + 1,
              jibes |-> counts.jibes,
              tacks |-> counts.tacks + 1,
              flyingJibes |-> counts.flyingJibes,
              maneuver |-> [type |-> "tack", endIndex |-> w.maneuverEndIndex,
                            isFlying |-> FALSE]]
        ELSE [i |-> idx + 1,
              jibes |-> counts.jibes,
              tacks |-> counts.tacks,
              flyingJibes |-> counts.flyingJibes,
              maneuver |-> [type |-> "null", endIndex |-> 0 - 1, isFlying |-> FALSE]]

\* the record getAnalysisData returns, given the counts of its maneuver loop
BaseStatistics(points, cfg, counts) ==
    [ totalDistance             |-> calculateTotalDistance(points),
      totalTime                 |-> calculateTotalTime(points),
      avgSpeed                  |-> averageSpeedWeighted(points),
      maxSpeed                  |-> baseGetMaxSpeed(points),
      timeAbove10kmh            |-> Div1000(baseTimeAboveFrom(points, cfg, 1, 0)),
      maxDistanceFromStart      |-> calculateMaxDistanceFromStart(points),
      longestSequenceAbove10kmh |-> baseLongestFrom(points, cfg, 0, 0, 0 - 1),
      jibeCount                 |-> counts.jibes,
      tackCount                 |-> counts.tacks,
      flyingJibeCount           |-> counts.flyingJibes ]

(***************************************************************************)
(* The analyzer as a state machine: one getStatistics call at a time, the  *)
(* maneuver loop one iteration per step.                                   *)
(***************************************************************************)
MaxManeuvers == 4

NoResult == [returned |-> FALSE]

Counts == [jibes |-> jibes, tacks |-> tacks, flyingJibes |-> flyingJibes]

\* a guard that lets a single point through
KIInsufficientDataOffByOne(arg) == ~arg.present \/ Len(arg.points) < 1

\* the guard of getKIAnalysisData: !points || points.length < 2
KIInsufficientData(arg) == ~arg.present \/ Len(arg.points) < 2

\* the guard of getAnalysisData: !points || points.length < 2
BaseInsufficientData(arg) == ~arg.present \/ Len(arg.points) < 2

\* getStatistics(arg) up to the maneuver loop: the guard on the argument
Call(arg) ==
    /\ pc = "idle"
    /\ input' = arg
    /\ pc' = IF kind = "KI"
             THEN (IF KIInsufficientData(arg) THEN "thrown" ELSE "scan")
             ELSE (IF BaseInsufficientData(arg) THEN "thrown" ELSE "scan")
    /\ i' = 1
    /\ jibes' = 0
    /\ tacks' = 0
    /\ flyingJibes' = 0
    /\ maneuvers' = <<>>
    /\ result' = NoResult
    /\ UNCHANGED <<kind, config>>

\* one iteration of the maneuver loop
ScanStep ==
    /\ pc = "scan"
    /\ i < Len(input.points) - 1
    /\ jibes + tacks < MaxManeuvers
    /\ LET s == IF kind = "KI"
                THEN detectManeuversStep(input.points, config, i, Counts)
                ELSE baseManeuverStep(input.points, config, i, Counts)
       IN  /\ i' = s.i
           /\ jibes' = s.jibes
           /\ tacks' = s.tacks
           /\ flyingJibes' = s.flyingJibes
           /\ maneuvers' = IF s.maneuver.type = "null" THEN maneuvers
                           ELSE Append(maneuvers,
                                       [type |-> s.maneuver.type, startIndex |-> i,
                                        endIndex |-> s.maneuver.endIndex,
                                        isFlying |-> s.maneuver.isFlying])
    /\ UNCHANGED <<kind, config, pc, input, result>>

\* a return that first writes 0 into the points that carry no speed
ScanEndFillingSpeeds ==
    /\ pc = "scan"
    /\ i >= Len(input.points) - 1
    /\ result' = [returned |-> TRUE,
                  stats |-> IF kind = "KI"
                            THEN KIStatistics(input.points, config, Counts)
                            ELSE BaseStatistics(input.points, config, Counts)]
    /\ pc' = "done"
    /\ input' = [input EXCEPT !.points =
                    [k \in DOMAIN @ |-> [lat |-> @[k].lat, lon |-> @[k].lon, time |-> @[k].time,
                                          speed |-> SpeedOr0(@[k])]]]
    /\ UNCHANGED <<kind, config, i, jibes, tacks, flyingJibes, maneuvers>>

\* the loop ends and the call returns its statistics
ScanEnd ==
    /\ pc = "scan"
    /\ i >= Len(input.points) - 1
    /\ result' = [returned |-> TRUE,
                  stats |-> IF kind = "KI"
                            THEN KIStatistics(input.points, config, Counts)
                            ELSE BaseStatistics(input.points, config, Counts)]
    /\ pc' = "done"
    /\ UNCHANGED <<kind, config, input, i, jibes, tacks, flyingJibes, maneuvers>>

\* the caller takes the outcome; the analyzer is ready for the next call
Return ==
    /\ pc \in {"done", "thrown"}
    /\ pc' = "idle"
    /\ input' = Missing
    /\ i' = 1
    /\ jibes' = 0
    /\ tacks' = 0
    /\ flyingJibes' = 0
    /\ maneuvers' = <<>>
    /\ result' = NoResult
    /\ UNCHANGED <<kind, config>>

\* KIAnalysis.updateConfig(newConfig), between calls
UpdateConfig(newConfig) ==
    /\ pc = "idle"
    /\ kind = "KI"
    /\ config' = updateConfig(config, newConfig)
    /\ UNCHANGED <<kind, pc, input, i, jibes, tacks, flyingJibes, maneuvers, result>>

Idle(k, cfg) ==
    /\ kind = k
    /\ config = cfg
    /\ pc = "idle"
    /\ input = Missing
    /\ i = 1
    /\ jibes = 0
    /\ tacks = 0
    /\ flyingJibes = 0
    /\ maneuvers = <<>>
    /\ result = NoResult

(***************************************************************************)
(* Inputs.                                                                 *)
(***************************************************************************)
NoSpeed == 0 - 1

\* a track point on the equator; s = NoSpeed leaves the speed field out
Point(lon, time, s) ==
    IF s = NoSpeed THEN [lat |-> 0, lon |-> lon, time |-> time]
    ELSE [lat |-> 0, lon |-> lon, time |-> time, speed |-> s]

EmptyConfig == [f \in {} |-> 0]

\* Tracks for the maneuver loop: chronological and evenly sampled, every 4 or
\* every 12 seconds, going east, west or staying, with speed 5 m/s (18 km/h)
\* or none.
MaxPoints == 6
Lons == {0, 1}
Periods == {4000, 12000}
ManeuverSpeeds == {NoSpeed, 5}

RECURSIVE ManeuverTracks(_, _)
ManeuverTracks(n, period) ==
    IF n = 0 THEN {<<>>}
    ELSE {Append(t, Point(lon, period * (n - 1), s)) :
            t \in ManeuverTracks(n - 1, period), lon \in Lons, s \in ManeuverSpeeds}

ManeuverInputs ==
    {Missing} \cup {Given(t) : t \in UNION {ManeuverTracks(n, period) :
                                              n \in 0..MaxPoints, period \in Periods}}

\* what the constructor of KIAnalysis is given: nothing, three values of its
\* own, or a tack threshold of zero
KIPartials ==
    { EmptyConfig,
      [jibeAngleThreshold |-> 90, maneuverTimeWindowSeconds |-> 10,
       flyingJibeSpeedThresholdKmh |-> 18],
      [tackAngleThreshold |-> 0] }

\* what the constructor of AnalysisBase is given in main.ts
BaseConfigs ==
    { [flyingSpeedThresholdKmh |-> 4, flyingJibeSpeedThresholdKmh |-> 2,
       jibeAngleThreshold |-> 22] }

Init ==
    \/ \E p \in KIPartials : Idle("KI", KIConstructor(p))
    \/ \E c \in BaseConfigs : Idle("Base", BaseConstructor(c))

Next ==
    \/ pc = "idle" /\ \E arg \in ManeuverInputs : Call(arg)
    \/ ScanStep
    \/ ScanEnd
    \/ Return

Spec == Init /\ [][Next]_vars

(***************************************************************************)
(* Configurations alone: any partial configuration at construction, any    *)
(* sequence of updateConfig calls after it.                                *)
(***************************************************************************)
Omit == 0 - 2

\* the record of the fields that are not left out
Partial(fk, fj, ja, ta, w, mf, mm) ==
    LET all == [ flyingSpeedThresholdKmh     |-> fk,
                 flyingJibeSpeedThresholdKmh |-> fj,
                 jibeAngleThreshold          |-> ja,
                 tackAngleThreshold          |-> ta,
                 maneuverTimeWindowSeconds   |-> w,
                 minFlyingSegmentSeconds     |-> mf,
                 minMaxSpeedDurationSeconds  |-> mm ]
    IN  [f \in {g \in DOMAIN all : all[g] # Omit} |-> all[f]]

AllPartials ==
    { Partial(fk, fj, ja, ta, w, mf, mm) :
        fk \in {Omit, 6}, fj \in {Omit, 18}, ja \in {Omit, 50, 90, 200},
        ta \in {Omit, 0, 100}, w \in {Omit, 10}, mf \in {Omit, 7}, mm \in {Omit, 4} }

InitConfig == \E p \in AllPartials : Idle("KI", KIConstructor(p))

NextConfig == \E p \in AllPartials : UpdateConfig(p)

SpecConfig == InitConfig /\ [][NextConfig]_vars

(***************************************************************************)
(* The metrics: tracks whose instants come in any order, with speeds under *)
(* and over the flying threshold.                                          *)
(***************************************************************************)
MaxMetricPoints == 4
MetricTimes == {0, 2000, 6000}
MetricSpeeds == {NoSpeed, 2, 5}

RECURSIVE MetricTracks(_)
MetricTracks(n) ==
    IF n = 0 THEN {<<>>}
    ELSE {Append(t, Point(0, time, s)) :
            t \in MetricTracks(n - 1), time \in MetricTimes, s \in MetricSpeeds}

MetricInputs == {Given(t) : t \in UNION {MetricTracks(n) : n \in 0..MaxMetricPoints}}

MetricPartials ==
    {EmptyConfig, [minMaxSpeedDurationSeconds |-> 5, minFlyingSegmentSeconds |-> 2]}

InitMetric ==
    \/ \E p \in MetricPartials : Idle("KI", KIConstructor(p))
    \/ Idle("Base", BaseConstructor([flyingSpeedThresholdKmh |-> 8,
                                     flyingJibeSpeedThresholdKmh |-> 8]))

NextMetric ==
    \/ pc = "idle" /\ \E arg \in MetricInputs : Call(arg)
    \/ ScanStep
    \/ ScanEnd
    \/ Return

SpecMetric == InitMetric /\ [][NextMetric]_vars

(***************************************************************************)
(* Malformed input: tracks in which a timestamp does not parse (its        *)
(* instant is NaN) or a speed is over the outlier cap, in any order.       *)
(***************************************************************************)
MaxEdgePoints == 3
EdgeTimes == {0, 2000, NaN}
EdgeSpeeds == {NoSpeed, 5, 60}

RECURSIVE EdgeTracks(_)
EdgeTracks(n) ==
    IF n = 0 THEN {<<>>}
    ELSE {Append(t, Point(0, time, s)) :
            t \in EdgeTracks(n - 1), time \in EdgeTimes, s \in EdgeSpeeds}

EdgeInputs == {Given(t) : t \in UNION {EdgeTracks(n) : n \in 0..MaxEdgePoints}}

\* the defaults, or no minimum duration for the maximum speed
EdgePartials == {EmptyConfig, [minMaxSpeedDurationSeconds |-> 0]}

InitEdge ==
    \/ \E p \in EdgePartials : Idle("KI", KIConstructor(p))
    \/ \E c \in BaseConfigs : Idle("Base", BaseConstructor(c))

NextEdge ==
    \/ pc = "idle" /\ \E arg \in EdgeInputs : Call(arg)
    \/ ScanStep
    \/ ScanEnd
    \/ Return

SpecEdge == InitEdge /\ [][NextEdge]_vars

(***************************************************************************)
(* The claims.                                                             *)
(***************************************************************************)
\* C1: for both analyzers a call with a missing, empty or single-point
\* track throws before anything is computed and returns no record, and a
\* call with 2 or more points never throws.
C1_InsufficientData ==
    pc # "idle" =>
        /\ pc = "thrown" <=> (~input.present \/ Len(input.points) < 2)
        /\ pc = "thrown" =>
              /\ result = NoResult
              /\ jibes = 0 /\ tacks = 0 /\ flyingJibes = 0 /\ maneuvers = <<>>

C1_Witness ==
    /\ pc = "thrown"
    /\ kind = "Base"
    /\ input.present
    /\ Len(input.points) = 1

\* C2: in both analyzers the flying-jibe count never exceeds the jibe
\* count, in the loop and in the record returned, and a step that raises the
\* flying-jibe counter raises the jibe counter too.
C2_FlyingJibeSubset ==
    /\ [](/\ flyingJibes <= jibes
          /\ result.returned => result.stats.flyingJibeCount <= result.stats.jibeCount)
    /\ [][flyingJibes' > flyingJibes => jibes' > jibes]_vars

C2_Witness ==
    /\ pc = "done"
    /\ result.stats.jibeCount = 2
    /\ result.stats.flyingJibeCount = 2

\* C3: in KIAnalysis every maneuver counted after a maneuver with end index
\* e starts at an index strictly greater than e.
C3_NonOverlap ==
    kind = "KI" =>
        \A a, b \in 1..Len(maneuvers) :
            a < b => maneuvers[b].startIndex > maneuvers[a].endIndex

\* the instants of a track never go back
NonDecreasing(points) ==
    \A k \in 1..(Len(points) - 1) : points[k].time <= points[k + 1].time

FlyingTimeWithinTotal ==
    /\ 0 <= result.stats.timeAbove10kmh
    /\ result.stats.timeAbove10kmh <= result.stats.totalTime

\* C4 as stated: KIAnalysis reports 0 <= flying time <= total time for
\* every track of 2 or more points, whatever the order of the instants.
C4_FlyingTimeBoundAnyOrder ==
    (pc = "done" /\ kind = "KI") => FlyingTimeWithinTotal

\* C4 as amended: KIAnalysis reports 0 <= flying time <= total time for
\* every track of 2 or more points whose instants never go back.
C4_FlyingTimeBound ==
    (pc = "done" /\ kind = "KI" /\ NonDecreasing(input.points)) => FlyingTimeWithinTotal

C4_Witness ==
    /\ pc = "done"
    /\ kind = "KI"
    /\ NonDecreasing(input.points)
    /\ 0 < result.stats.timeAbove10kmh
    /\ result.stats.timeAbove10kmh < result.stats.totalTime

Durations == 0..8

\* C5: for the track of the call, a configuration that differs from the
\* analyzer's only by a longer minMaxSpeedDurationSeconds reports a sustained
\* maximum speed that is no higher, and one with a shorter duration reports
\* one that is no lower.
C5_MonotonicSustainedSpeed ==
    (pc = "done" /\ kind = "KI") =>
        \A d \in Durations :
            LET other == getMaxSpeed(input.points,
                             updateConfig(config, [minMaxSpeedDurationSeconds |-> d]))
            IN  /\ d >= config.minMaxSpeedDurationSeconds => other <= result.stats.maxSpeed
                /\ d <= config.minMaxSpeedDurationSeconds => other >= result.stats.maxSpeed

C5_Witness ==
    /\ pc = "done"
    /\ kind = "KI"
    /\ result.stats.maxSpeed = 2
    /\ getMaxSpeed(input.points,
                   updateConfig(config, [minMaxSpeedDurationSeconds |-> 0])) = 5

\* the indexes the look-ahead from startIndex examines: the consecutive later
\* indexes whose instant is at most `window` seconds after the start's
InWindow(points, startIndex, window) ==
    { j \in (startIndex + 1)..(Len(points) - 1) :
        \A k \in (startIndex + 1)..j :
            ~Gt(Div1000(Sub(getTime(points[k + 1]), getTime(points[startIndex + 1]))),
                window) }

\* the angular difference the look-ahead computes for index j
AngleAt(points, startIndex, j) ==
    angleDifference(At(calculateBearings(points), startIndex - 1),
                    At(calculateBearings(points), j - 1))

\* the maximum angular difference found in the window (0 when none is found)
MaxAngleIn(points, startIndex, window) ==
    LET found == {0} \cup ({AngleAt(points, startIndex, j) :
                               j \in InWindow(points, startIndex, window)} \ {NaN})
    IN  CHOOSE m \in found : \A a \in found : m >= a

\* C6: each start index the KIAnalysis scan examines counts as a jibe iff
\* the maximum angular difference of its window is >= jibeAngleThreshold, as a
\* tack iff it is >= tackAngleThreshold and < jibeAngleThreshold, and never
\* as both.
C6_Classification ==
    [][(pc = "scan" /\ pc' = "scan" /\ kind = "KI") =>
          LET a == MaxAngleIn(input.points, i, config.maneuverTimeWindowSeconds)
          IN  /\ jibes' \in {jibes, jibes + 1}
              /\ tacks' \in {tacks, tacks + 1}
              /\ jibes' = jibes + 1 <=> a >= config.jibeAngleThreshold
              /\ tacks' = tacks + 1 <=> (/\ a >= config.tackAngleThreshold
                                         /\ a < config.jibeAngleThreshold)
              /\ ~(jibes' = jibes + 1 /\ tacks' = tacks + 1)]_vars

C6_Witness ==
    /\ kind = "KI"
    /\ pc = "done"
    /\ jibes = 1
    /\ tacks = 1
    /\ config.tackAngleThreshold > 0

\* C7: a jibe KIAnalysis counts with start index i and end index e is
\* counted as a flying jibe iff every point of [i, e] has a speed (none
\* counting as 0) strictly above flyingJibeSpeedThresholdKmh / 3.6.
C7_FlyingJibe ==
    [][(pc = "scan" /\ pc' = "scan" /\ kind = "KI" /\ jibes' = jibes + 1) =>
          /\ flyingJibes' \in {flyingJibes, flyingJibes + 1}
          /\ flyingJibes' = flyingJibes + 1 <=>
                \A k \in i..(i' - 1) :
                    SpeedOr0(input.points[k + 1]) * 36
                        > config.flyingJibeSpeedThresholdKmh * 10]_vars

C7_Witness ==
    /\ kind = "KI"
    /\ pc = "done"
    /\ jibes = 2
    /\ flyingJibes = 1
    /\ \E m \in 1..Len(maneuvers) :
          /\ ~maneuvers[m].isFlying
          /\ AboveKmh(SpeedOr0(input.points[maneuvers[m].startIndex + 1]),
                      config.flyingJibeSpeedThresholdKmh)

\* C8: the configuration a KIAnalysis holds always satisfies
\* tackAngleThreshold < jibeAngleThreshold <= 180.
C8_ThresholdOrder ==
    kind = "KI" =>
        /\ config.tackAngleThreshold < config.jibeAngleThreshold
        /\ config.jibeAngleThreshold <= 180

\* the value of a configuration's field, its default when the field is left out
Effective(cfg, field) == IF field \in DOMAIN cfg THEN cfg[field] ELSE DefaultConfig[field]

\* C9: in both analyzers the maneuver loop classifies with the jibe angle,
\* tack angle and time window of the analyzer's configuration, a field
\* left out taking its default (140, 80, 15).
C9_ConfiguredThresholds ==
    [][(pc = "scan" /\ pc' = "scan") =>
          LET a == MaxAngleIn(input.points, i,
                              Effective(config, "maneuverTimeWindowSeconds"))
          IN  /\ jibes' = jibes + 1 <=> a >= Effective(config, "jibeAngleThreshold")
              /\ tacks' = tacks + 1 <=> (/\ a >= Effective(config, "tackAngleThreshold")
                                         /\ a < Effective(config, "jibeAngleThreshold"))]_vars

\* C10: a call on a track whose last instant is not after its first throws
\* and returns no record, so that a record returned has a total time > 0.
C10_DegenerateTimeFatal ==
    pc = "done" => Gt(result.stats.totalTime, 0)

\* every timestamp of the track parses to an instant
AllParsed(points) == \A k \in 1..Len(points) : getTime(points[k]) # NaN

\* C11: a call on a track in which some timestamp does not parse throws:
\* a call that returns a record has parsed every timestamp of its track.
C11_MalformedTimestampFatal ==
    pc = "done" => AllParsed(input.points)

\* the sum of f over the finite index set S
RECURSIVE SumOver(_, _)
SumOver(S, f) ==
    IF S = {} THEN 0
    ELSE LET k == CHOOSE x \in S : TRUE
         IN  Add(f[k], SumOver(S \ {k}, f))

\* the consecutive pairs of a track: pair k is made of the k-th and the next point
Pairs(points) == 1..(Len(points) - 1)

\* the time delta of pair k (milliseconds)
PairDelta(points, k) == Sub(getTime(points[k + 1]), getTime(points[k]))

\* what pair k counts for in the flying time (milliseconds): its whole
\* segment time when both ends are above the flying threshold, half of it when
\* one end is, nothing when neither is
PairFlying(points, cfg, k) ==
    LET above == {e \in {k, k + 1} :
                    SpeedOr0(points[e]) * 36 > cfg.flyingSpeedThresholdKmh * 10}
    IN  IF Cardinality(above) = 2 THEN PairDelta(points, k)
        ELSE IF Cardinality(above) = 1 THEN Half(PairDelta(points, k))
        ELSE 0

\* the pairs with a positive time delta
PositivePairs(points) == {k \in Pairs(points) : Gt(PairDelta(points, k), 0)}

\* the flying time (milliseconds) with the pairs of delta <= 0 left out
FlyingTimeLeavingOut(points, cfg) ==
    SumOver(PositivePairs(points), [k \in Pairs(points) |-> PairFlying(points, cfg, k)])

\* the average speed with the pairs of delta <= 0 left out, over the
\* outlier-capped sequence and its pairs that carry two speeds
AverageLeavingOut(points) ==
    LET capped == SelectSeq(points, LAMBDA q : SpeedOr0(q) <= OutlierSpeedCapMs)
        used == {k \in PositivePairs(capped) : HasSpeed(capped[k]) /\ HasSpeed(capped[k + 1])}
        num == SumOver(used, [k \in Pairs(capped) |->
                   Mul(SpeedOr0(capped[k]) + SpeedOr0(capped[k + 1]),
                       Half(Div1000(PairDelta(capped, k))))])
        den == SumOver(used, [k \in Pairs(capped) |-> Div1000(PairDelta(capped, k))])
    IN  IF used = {} THEN [num |-> 0, den |-> 1] ELSE [num |-> num, den |-> den]

\* C12: in KIAnalysis a consecutive pair whose time delta is <= 0 adds
\* nothing to the sums of the average speed and nothing to the flying time:
\* both results are those computed with such pairs left out.
C12_NonPositiveDeltaSkipped ==
    (pc = "done" /\ kind = "KI") =>
        /\ result.stats.avgSpeed = AverageLeavingOut(input.points)
        /\ result.stats.timeAbove10kmh = Div1000(FlyingTimeLeavingOut(input.points, config))

\* C13: a getStatistics call of KIAnalysis changes neither the analyzer's
\* configuration nor the track it is given, and the record it returns is the
\* one a fresh analyzer of that configuration computes for that track,
\* whatever calls came before.
C13_NoStateBetweenCalls ==
    /\ [][kind = "KI" =>
            /\ config' = config
            /\ (pc # "idle" /\ pc' # "idle") => input' = input]_vars
    /\ []((pc = "done" /\ kind = "KI") =>
            result.stats = KIStatistics(input.points, config,
                                        detectManeuvers(input.points, config)))

C13_Witness ==
    /\ pc = "done"
    /\ kind = "KI"
    /\ Len(input.points) >= 4
    /\ result.stats.jibeCount = 1
    /\ result.stats.tackCount = 0
    /\ result.stats.flyingJibeCount = 0

\* the outlier-capped sequence: the points with a speed of at most 50 m/s
Capped(points) == SelectSeq(points, LAMBDA q : SpeedOr0(q) <= OutlierSpeedCapMs)

\* the last index of the run that starts at index p: the run ends before the
\* first later point whose speed is below that of point p
RunEnd(pts, p) ==
    CHOOSE e \in p..Len(pts) :
        /\ \A k \in p..e : SpeedOr0(pts[k]) >= SpeedOr0(pts[p])
        /\ e = Len(pts) \/ SpeedOr0(pts[e + 1]) < SpeedOr0(pts[p])

\* the seconds from the timestamp of point p to the last timestamp of its run
RunSpan(pts, p) == Div1000(Sub(getTime(pts[RunEnd(pts, p)]), getTime(pts[p])))

\* the speeds over 0.1 m/s whose run spans at least minDuration seconds
SustainedSpeeds(pts, minDuration) ==
    { SpeedOr0(pts[p]) : p \in { q \in 1..Len(pts) :
          /\ SpeedOr0(pts[q]) * 10 > 1
          /\ Ge(RunSpan(pts, q), minDuration) } }

\* the largest of them, 0 when there is none
LargestSustained(pts, minDuration) ==
    LET found == {0} \cup SustainedSpeeds(pts, minDuration)
    IN  CHOOSE m \in found : \A v \in found : m >= v

\* C14: the maximum speed KIAnalysis reports is the largest speed over
\* 0.1 m/s of the outlier-capped sequence whose run (up to the point before
\* the first later point of lower speed) spans at least
\* minMaxSpeedDurationSeconds, and 0 when no point has such a run.
C14_SustainedMaximum ==
    (pc = "done" /\ kind = "KI") =>
        result.stats.maxSpeed =
            LargestSustained(Capped(input.points), config.minMaxSpeedDurationSeconds)

\* four points 10 seconds apart with speeds below, above, above and below
\* the default flying threshold (8 km/h is 2.22 m/s)
FourPointExample ==
    << Point(0, 0, 2), Point(0, 10000, 5), Point(0, 20000, 5), Point(0, 30000, 2) >>

\* how many ends of pair k are above the flying threshold
EndsAbove(points, cfg, k) ==
    Cardinality({e \in {k, k + 1} :
                    SpeedOr0(points[e]) * 36 > cfg.flyingSpeedThresholdKmh * 10})

\* C15: the flying time KIAnalysis reports is the sum over the consecutive
\* pairs of the whole segment time when both ends are strictly above
\* flyingSpeedThresholdKmh / 3.6, half of it when one end is, nothing when
\* neither is (no speed counting as 0); for four points 10 s apart with
\* speeds below, above, above, below it is 5 + 10 + 5 = 20 s.
C15_FlyingTimeSum ==
    (pc = "done" /\ kind = "KI") =>
        /\ result.stats.timeAbove10kmh =
              Div1000(SumOver(Pairs(input.points),
                              [k \in Pairs(input.points) |->
                                  PairFlying(input.points, config, k)]))
        /\ Div1000(calculateFlyingTime(FourPointExample, config)) = 20

C15_Witness ==
    /\ pc = "done"
    /\ kind = "KI"
    /\ {EndsAbove(input.points, config, k) : k \in Pairs(input.points)} = {0, 1, 2}
    /\ result.stats.timeAbove10kmh > 0

\* point k of the track is flying: its speed is strictly above the threshold
Flying(points, cfg, k) == SpeedOr0(points[k]) * 36 > cfg.flyingSpeedThresholdKmh * 10

\* the maximal runs of consecutive flying points, as <<first, last>>
MaximalRuns(points, cfg) ==
    { r \in (1..Len(points)) \X (1..Len(points)) :
        /\ r[1] <= r[2]
        /\ \A k \in r[1]..r[2] : Flying(points, cfg, k)
        /\ r[1] = 1 \/ ~Flying(points, cfg, r[1] - 1)
        /\ r[2] = Len(points) \/ ~Flying(points, cfg, r[2] + 1) }

\* a run's duration: its last timestamp minus its first, in seconds
RunDuration(points, r) == Div1000(Sub(getTime(points[r[2]]), getTime(points[r[1]])))

\* the largest duration among the runs of at least minFlyingSegmentSeconds,
\* 0 when there is none
LargestRun(points, cfg) ==
    LET found == {0} \cup { RunDuration(points, r) : r \in
                    { q \in MaximalRuns(points, cfg) :
                        Ge(RunDuration(points, q), cfg.minFlyingSegmentSeconds) } }
    IN  CHOOSE m \in found : \A d \in found : m >= d

\* C16: the longest flying sequence KIAnalysis reports is the largest
\* duration among the maximal runs of flying points that last at least
\* minFlyingSegmentSeconds, the run open at the final point included, and 0
\* when no run qualifies; so it is 0 or >= minFlyingSegmentSeconds.
C16_LongestFlyingSequence ==
    (pc = "done" /\ kind = "KI") =>
        /\ result.stats.longestSequenceAbove10kmh = LargestRun(input.points, config)
        /\ \/ result.stats.longestSequenceAbove10kmh = 0
           \/ result.stats.longestSequenceAbove10kmh >= config.minFlyingSegmentSeconds

C16_Witness ==
    /\ pc = "done"
    /\ kind = "KI"
    /\ result.stats.longestSequenceAbove10kmh >= config.minFlyingSegmentSeconds
    /\ \E r \in MaximalRuns(input.points, config) :
          /\ r[2] = Len(input.points)
          /\ RunDuration(input.points, r) = result.stats.longestSequenceAbove10kmh
    /\ \E r \in MaximalRuns(input.points, config) :
          /\ r[2] < Len(input.points)
          /\ RunDuration(input.points, r) < config.minFlyingSegmentSeconds

JumpBounds == {0, 2, 55}

\* the {t, s} entries of the points whose indexes are in S, in the order of
\* the track
RECURSIVE EntriesAt(_, _, _)
EntriesAt(points, S, idx) ==
    IF idx > Len(points) THEN <<>>
    ELSE IF idx \in S
         THEN <<[t |-> getTime(points[idx]), s |-> SpeedOr0(points[idx])]>>
                  \o EntriesAt(points, S, idx + 1)
         ELSE EntriesAt(points, S, idx + 1)

\* kept is an order-preserving subsequence of the points that carry a speed
SubsequenceOf(kept, points) ==
    \E S \in SUBSET {k \in 1..Len(points) : HasSpeed(points[k])} :
        kept = EntriesAt(points, S, 1)

\* the points that carry a speed
WithSpeed(points) == {k \in 1..Len(points) : HasSpeed(points[k])}

\* the first point that carries a speed is the first entry kept
FirstWithSpeedKept(kept, points) ==
    WithSpeed(points) # {} =>
        LET first == CHOOSE k \in WithSpeed(points) : \A o \in WithSpeed(points) : k <= o
        IN  /\ kept # <<>>
            /\ kept[1] = [t |-> getTime(points[first]), s |-> points[first].speed]

\* C17: for every track the basic analyzer goes through and every jump
\* bound (its own, 2 m/s, among them), what filterBySpeedJump keeps is an
\* order-preserving subsequence of the input whose entries all carry a
\* speed, with strictly increasing timestamps and with consecutive speeds
\* that differ by at most the bound; the first input point that carries a
\* speed is always kept.
C17_JumpFilter ==
    (pc = "done" /\ kind = "Base") =>
        \A jumpMps \in JumpBounds :
            LET kept == filterBySpeedJump(input.points, jumpMps)
            IN  /\ SubsequenceOf(kept, input.points)
                /\ \A m \in 1..Len(kept) : kept[m].t # NaN
                /\ \A m \in 1..(Len(kept) - 1) :
                      /\ kept[m].t < kept[m + 1].t
                      /\ Abs(kept[m].s - kept[m + 1].s) <= jumpMps
                /\ FirstWithSpeedKept(kept, input.points)

\* C18: the loop of KIAnalysis.detectManeuvers ends on every track of 2 or
\* more points and for every configuration: from one iteration to the next
\* the scan index strictly increases.
C18_ScanIndexIncreases ==
    [][(pc = "scan" /\ pc' = "scan" /\ kind = "KI") => i' > i]_vars

\* the smallest index of the window of startIndex at which the angular
\* difference is the maximum of the window (-1 when the window is empty)
FirstMaxIn(points, startIndex, window) ==
    LET at == { j \in InWindow(points, startIndex, window) :
                  AngleAt(points, startIndex, j) = MaxAngleIn(points, startIndex, window) }
    IN  IF at = {} THEN 0 - 1
        ELSE CHOOSE j \in at : \A o \in at : j <= o

\* C19: when the KIAnalysis scan counts a maneuver at start index i, the
\* maneuver's end index is the smallest j > i of the window of i at which
\* the angular difference to the bearing before i is the maximum of the
\* window, and the scan resumes at end + 1.
C19_EndIndex ==
    [][(pc = "scan" /\ pc' = "scan" /\ kind = "KI" /\ Len(maneuvers') > Len(maneuvers)) =>
          LET m == maneuvers'[Len(maneuvers')]
          IN  /\ m.startIndex = i
              /\ m.endIndex > i
              /\ m.endIndex = FirstMaxIn(input.points, i, config.maneuverTimeWindowSeconds)
              /\ i' = m.endIndex + 1]_vars

\* the instants of a track strictly increase
StrictlyIncreasing(points) ==
    \A k \in 1..(Len(points) - 1) : points[k].time < points[k + 1].time

\* C20: for every track whose timestamps strictly increase, the longest
\* flying sequence KIAnalysis reports is at most the flying time it reports
\* (both in seconds).
C20_LongestWithinFlyingTime ==
    (pc = "done" /\ kind = "KI" /\ StrictlyIncreasing(input.points)) =>
        result.stats.longestSequenceAbove10kmh <= result.stats.timeAbove10kmh

C20_Witness ==
    /\ pc = "done"
    /\ kind = "KI"
    /\ StrictlyIncreasing(input.points)
    /\ Len(input.points) >= 4
    /\ result.stats.longestSequenceAbove10kmh > 0
    /\ result.stats.longestSequenceAbove10kmh < result.stats.timeAbove10kmh

\* the point indexes a counted maneuver uses
IndexesOf(m) == m.startIndex..m.endIndex

\* C21: for a track of n points and positive angle thresholds KIAnalysis
\* counts at most floor((n - 1) / 2) maneuvers (jibes plus tacks), and none
\* when n = 2: every maneuver counted has 1 <= start < end <= n - 1 and uses
\* at least two point indexes that no other maneuver uses.
C21_ManeuverCountBound ==
    (/\ kind = "KI"
     /\ pc \in {"scan", "done"}
     /\ config.jibeAngleThreshold > 0
     /\ config.tackAngleThreshold > 0) =>
        LET n == Len(input.points)
        IN  /\ jibes + tacks <= (n - 1) \div 2
            /\ n = 2 => jibes + tacks = 0
            /\ Len(maneuvers) = jibes + tacks
            /\ pc = "done" =>
                  result.stats.jibeCount + result.stats.tackCount <= (n - 1) \div 2
            /\ \A a \in 1..Len(maneuvers) :
                  /\ 1 <= maneuvers[a].startIndex
                  /\ maneuvers[a].startIndex < maneuvers[a].endIndex
                  /\ maneuvers[a].endIndex <= n - 1
                  /\ Cardinality(IndexesOf(maneuvers[a])) >= 2
                  /\ \A b \in 1..Len(maneuvers) :
                        a # b => IndexesOf(maneuvers[a]) \cap IndexesOf(maneuvers[b]) = {}

C21_Witness ==
    /\ kind = "KI"
    /\ pc = "done"
    /\ config.jibeAngleThreshold > 0
    /\ config.tackAngleThreshold > 0
    /\ Len(input.points) = 5
    /\ result.stats.jibeCount + result.stats.tackCount = 2
    /\ Len(maneuvers) = 2

====
